---- MODULE Spec2Model ----
(***************************************************************************)
(* The accounting state machine of transactron: the per-client Account     *)
(* (src/src/account.rs), the ledger of amount-bearing transactions and     *)
(* TransactionProcessor::process_transaction                               *)
(* (src/src/transaction_processor.rs).                                     *)
(*                                                                         *)
(* Amounts are rust_decimal values; they are modelled as integers counting *)
(* units of the smallest decimal step, which keeps +, - and the            *)
(* comparisons exact, as Decimal does.  Option<Amount> is modelled as a    *)
(* sequence: << >> is None and <<a>> is Some(a).                           *)
(***************************************************************************)
EXTENDS Integers, Sequences, FiniteSets, TLC

\* Bounds of the model: the largest amount an event carries and the number
\* of events the stream holds.
MaxAmount == 2
MaxEvents == 4
\* The number of events main sends down the channel.
MaxSent == 5

\* Two client ids (u16) and two transaction ids (u32): enough for an event
\* to name its own or another client's transaction, and a recorded or an
\* unrecorded tx_id.
ClientIDs == {0, 1}
TxIDs == {1, 2}
Amounts == 1..MaxAmount

VARIABLES
    accounts,      \* BTreeMap<u16, Account>: a function on the client ids seen
    transactions,  \* BTreeMap<u32, TransactionData>: the ledger
    last,          \* the Transaction process_transaction handled last
    result,        \* what that call returned: "Ok" or the AccountingError
    pre,           \* accounts and transactions as they were when it was called
    disputed,      \* per client: the dispute it applied last, if no other
                   \* event of that client followed but the Resolve of it
    processed,     \* number of events process_transaction has handled
    charged,       \* tx_ids of the ledger entries a Chargeback was applied to
    queue,         \* the unbounded channel: events sent and not yet received
    sender,        \* main's UnboundedSender: "alive" or "dropped"
    pc,            \* process(): "recv" in the while-let loop, "halted" after it
    sent,          \* every event main has sent, in order
    applied,       \* every event handed to process_transaction, in order
    alone,         \* per processor: the accounts and ledger its own stream
                   \* alone would have produced
    used,          \* per processor: the tx_ids its stream has named
    holder,        \* per RwLock: the processor holding its write side, if any
    waiting,       \* per RwLock: the processors queued for its write side
    at,            \* per processor: where it is in process_transaction
    event          \* per processor: the Transaction it is handling

core_vars ==
    <<accounts, transactions, last, result, pre, disputed, processed, charged>>
chan_vars == <<queue, sender, pc, sent, applied>>
shared_vars == <<alone, used>>
lock_vars == <<holder, waiting, at, event>>
vars == <<core_vars, chan_vars, shared_vars, lock_vars>>

----------------------------------------------------------------------------
\* transaction.rs

None == << >>
Some(a) == <<a>>
is_some(o) == o /= << >>
unwrap(o) == o[1]

TransactionData(client_id, tx_id, amount) ==
    [client_id |-> client_id, tx_id |-> tx_id, amount |-> amount,
     under_dispute |-> FALSE]

Transaction(kind, client_id, tx_id, amount) ==
    [kind |-> kind, data |-> TransactionData(client_id, tx_id, amount)]

----------------------------------------------------------------------------
\* error.rs

Ok == "Ok"
ErrWithdrawal == "Withdrawal"
ErrDispute == "Dispute"
ErrTransactionAlreadyExists == "TransactionAlreadyExists"
ErrAccountLocked == "AccountLocked"

----------------------------------------------------------------------------
\* account.rs

AccountDefault ==
    [client |-> 0, available |-> 0, held |-> 0, total |-> 0, locked |-> FALSE]

deposit_no_total(self, amount) ==
    [self EXCEPT !.available = @ + amount]

deposit(self, amount) ==
    [self EXCEPT !.available = @ + amount, !.total = @ + amount]

\* Each fallible operation yields the account after the call and the Result.
withdrawal_strict(self, amount) ==
    IF self.available - amount > 0
    THEN [acct |-> [self EXCEPT !.available = @ - amount, !.total = @ - amount],
          res |-> Ok]
    ELSE [acct |-> self, res |-> ErrWithdrawal]

withdrawal(self, amount) ==
    IF self.available - amount >= 0
    THEN [acct |-> [self EXCEPT !.available = @ - amount, !.total = @ - amount],
          res |-> Ok]
    ELSE [acct |-> self, res |-> ErrWithdrawal]

dispute_unchecked(self, amount) ==
    [acct |-> [self EXCEPT !.held = @ + amount, !.available = @ - amount],
     res |-> Ok]

dispute_keeps_available(self, amount) ==
    IF self.available >= amount
    THEN [acct |-> [self EXCEPT !.held = @ + amount], res |-> Ok]
    ELSE [acct |-> self, res |-> ErrDispute]

dispute(self, amount) ==
    IF self.available >= amount
    THEN [acct |-> [self EXCEPT !.held = @ + amount, !.available = @ - amount],
          res |-> Ok]
    ELSE [acct |-> self, res |-> ErrDispute]

resolve_keeps_held(self, amount) ==
    [self EXCEPT !.available = @ + amount]

resolve(self, amount) ==
    [self EXCEPT !.held = @ - amount, !.available = @ + amount]

chargeback(self, amount) ==
    [self EXCEPT !.held = @ - amount, !.total = @ - amount, !.locked = TRUE]

----------------------------------------------------------------------------
\* transaction_processor.rs: the pieces of process_transaction

\* accounts.entry(client_id).or_default(), with the client id of a new
\* account set to the event's.
entry_or_default(accts, client_id) ==
    IF client_id \in DOMAIN accts
    THEN accts[client_id]
    ELSE [AccountDefault EXCEPT !.client = client_id]

locked_ignored(client) == FALSE

\* if client.locked { return Err(AccountLocked) }
locked_guard(client) == client.locked

insert_overwrite(txs, tx_data) ==
    [txs |-> (tx_data.tx_id :> tx_data) @@ txs,
     res |-> IF tx_data.tx_id \notin DOMAIN txs
             THEN Ok ELSE ErrTransactionAlreadyExists]

\* if let Entry::Vacant(e) = transactions.entry(tx_id) { e.insert(tx_data) }
\* else { return Err(TransactionAlreadyExists) }
insert_if_vacant(txs, tx_data) ==
    IF tx_data.tx_id \notin DOMAIN txs
    THEN [txs |-> (tx_data.tx_id :> tx_data) @@ txs, res |-> Ok]
    ELSE [txs |-> txs, res |-> ErrTransactionAlreadyExists]

\* Every arm yields the client's account, the ledger and the Result it
\* leaves behind.
deposit_arm(client, txs, tx_data) ==
    LET c == deposit(client, unwrap(tx_data.amount))
        i == insert_if_vacant(txs, tx_data)
    IN  [client |-> c, txs |-> i.txs, res |-> i.res]

withdrawal_arm(client, txs, tx_data) ==
    LET w == withdrawal(client, unwrap(tx_data.amount))
        i == insert_if_vacant(txs, tx_data)
    IN  IF w.res /= Ok
        THEN [client |-> client, txs |-> txs, res |-> w.res]
        ELSE [client |-> w.acct, txs |-> i.txs, res |-> i.res]

dispute_arm_unknown_is_error(client, txs, tx_data) ==
    IF tx_data.tx_id \in DOMAIN txs
    THEN LET t == txs[tx_data.tx_id]
         IN  IF is_some(t.amount) /\ ~t.under_dispute
             THEN LET d == dispute(client, unwrap(t.amount))
                  IN  IF d.res = Ok
                      THEN [client |-> d.acct,
                            txs |-> [txs EXCEPT ![tx_data.tx_id].under_dispute = TRUE],
                            res |-> Ok]
                      ELSE [client |-> client, txs |-> txs, res |-> d.res]
             ELSE [client |-> client, txs |-> txs, res |-> Ok]
    ELSE [client |-> client, txs |-> txs, res |-> ErrDispute]

dispute_arm_flag_on_error(client, txs, tx_data) ==
    IF tx_data.tx_id \in DOMAIN txs
    THEN LET t == txs[tx_data.tx_id]
         IN  IF is_some(t.amount) /\ ~t.under_dispute
             THEN LET d == dispute(client, unwrap(t.amount))
                  IN  [client |-> d.acct,
                       txs |-> [txs EXCEPT ![tx_data.tx_id].under_dispute = TRUE],
                       res |-> d.res]
             ELSE [client |-> client, txs |-> txs, res |-> Ok]
    ELSE [client |-> client, txs |-> txs, res |-> Ok]

dispute_arm(client, txs, tx_data) ==
    IF tx_data.tx_id \in DOMAIN txs
    THEN LET t == txs[tx_data.tx_id]
         IN  IF is_some(t.amount) /\ ~t.under_dispute
             THEN LET d == dispute(client, unwrap(t.amount))
                  IN  IF d.res = Ok
                      THEN [client |-> d.acct,
                            txs |-> [txs EXCEPT ![tx_data.tx_id].under_dispute = TRUE],
                            res |-> Ok]
                      ELSE [client |-> client, txs |-> txs, res |-> d.res]
             ELSE [client |-> client, txs |-> txs, res |-> Ok]
    ELSE [client |-> client, txs |-> txs, res |-> Ok]

resolve_arm_no_flag_check(client, txs, tx_data) ==
    IF tx_data.tx_id \in DOMAIN txs
    THEN LET t == txs[tx_data.tx_id]
         IN  IF is_some(t.amount)
             THEN [client |-> resolve(client, unwrap(t.amount)),
                   txs |-> [txs EXCEPT ![tx_data.tx_id].under_dispute = FALSE],
                   res |-> Ok]
             ELSE [client |-> client, txs |-> txs, res |-> Ok]
    ELSE [client |-> client, txs |-> txs, res |-> Ok]

resolve_arm(client, txs, tx_data) ==
    IF tx_data.tx_id \in DOMAIN txs
    THEN LET t == txs[tx_data.tx_id]
         IN  IF is_some(t.amount) /\ t.under_dispute
             THEN [client |-> resolve(client, unwrap(t.amount)),
                   txs |-> [txs EXCEPT ![tx_data.tx_id].under_dispute = FALSE],
                   res |-> Ok]
             ELSE [client |-> client, txs |-> txs, res |-> Ok]
    ELSE [client |-> client, txs |-> txs, res |-> Ok]

chargeback_arm_keeps_flag(client, txs, tx_data) ==
    IF tx_data.tx_id \in DOMAIN txs
    THEN LET t == txs[tx_data.tx_id]
         IN  IF is_some(t.amount) /\ t.under_dispute
             THEN [client |-> [chargeback(client, unwrap(t.amount))
                                  EXCEPT !.locked = TRUE],
                   txs |-> txs,
                   res |-> Ok]
             ELSE [client |-> client, txs |-> txs, res |-> Ok]
    ELSE [client |-> client, txs |-> txs, res |-> Ok]

chargeback_arm(client, txs, tx_data) ==
    IF tx_data.tx_id \in DOMAIN txs
    THEN LET t == txs[tx_data.tx_id]
         IN  IF is_some(t.amount) /\ t.under_dispute
             THEN [client |-> [chargeback(client, unwrap(t.amount))
                                  EXCEPT !.locked = TRUE],
                   txs |-> [txs EXCEPT ![tx_data.tx_id].under_dispute = FALSE],
                   res |-> Ok]
             ELSE [client |-> client, txs |-> txs, res |-> Ok]
    ELSE [client |-> client, txs |-> txs, res |-> Ok]

\* match tx { ... }
dispatch(client, txs, tx) ==
    CASE tx.kind = "Deposit" -> deposit_arm(client, txs, tx.data)
      [] tx.kind = "Withdrawal" -> withdrawal_arm(client, txs, tx.data)
      [] tx.kind = "Dispute" -> dispute_arm(client, txs, tx.data)
      [] tx.kind = "Resolve" -> resolve_arm(client, txs, tx.data)
      [] tx.kind = "Chargeback" -> chargeback_arm(client, txs, tx.data)

process_transaction_store_by_owner(accts, txs, tx) ==
    LET client_id == tx.data.client_id
        client == entry_or_default(accts, client_id)
        owner == IF tx.data.tx_id \in DOMAIN txs
                 THEN txs[tx.data.tx_id].client_id ELSE client_id
        with(c) == (owner :> c) @@ ((client_id :> client) @@ accts)
    IN  IF locked_guard(client)
        THEN [accounts |-> (client_id :> client) @@ accts, transactions |-> txs,
              result |-> ErrAccountLocked]
        ELSE LET r == dispatch(client, txs, tx)
             IN  [accounts |-> with(r.client), transactions |-> r.txs,
                  result |-> r.res]

process_transaction_lock_after(accts, txs, tx) ==
    LET client_id == tx.data.client_id
        client == entry_or_default(accts, client_id)
        with(c) == (client_id :> c) @@ accts
        r == dispatch(client, txs, tx)
    IN  [accounts |-> with(r.client), transactions |-> r.txs,
         result |-> IF locked_guard(client) THEN ErrAccountLocked ELSE r.res]

process_transaction_key_zero(accts, txs, tx) ==
    LET client_id == tx.data.client_id
        client == entry_or_default(accts, 0)
        with(c) == (0 :> c) @@ accts
    IN  IF locked_guard(client)
        THEN [accounts |-> with(client), transactions |-> txs,
              result |-> ErrAccountLocked]
        ELSE LET r == dispatch(client, txs, tx)
             IN  [accounts |-> with(r.client), transactions |-> r.txs,
                  result |-> r.res]

\* The whole of process_transaction: the accounts map, the ledger and the
\* Result after the call.  The account fetched or created at the top stays
\* in the map on every return path.
process_transaction(accts, txs, tx) ==
    LET client_id == tx.data.client_id
        client == entry_or_default(accts, client_id)
        with(c) == (client_id :> c) @@ accts
    IN  IF locked_guard(client)
        THEN [accounts |-> with(client), transactions |-> txs,
              result |-> ErrAccountLocked]
        ELSE LET r == dispatch(client, txs, tx)
             IN  [accounts |-> with(r.client), transactions |-> r.txs,
                  result |-> r.res]

----------------------------------------------------------------------------
\* The state machine: process() hands each received event to
\* process_transaction and drops the Result.

NoTransaction == Transaction("None", 0, 0, None)

\* The two RwLocks a TransactionProcessor is built over, and the processors
\* built over the same pair.
Locks == {"accounts", "transactions"}
Processors == {0, 1}

\* let ledger = Default::default(); let accounts = Default::default();
EmptyMaps == [accounts |-> << >>, transactions |-> << >>]

Init ==
    /\ accounts = << >>
    /\ transactions = << >>
    /\ last = NoTransaction
    /\ result = Ok
    /\ pre = [accounts |-> << >>, transactions |-> << >>]
    /\ disputed = [c \in ClientIDs |-> None]
    /\ processed = 0
    /\ charged = {}
    /\ queue = << >>
    /\ sender = "alive"
    /\ pc = "recv"
    /\ sent = << >>
    /\ applied = << >>
    /\ alone = [p \in ClientIDs |-> EmptyMaps]
    /\ used = [p \in ClientIDs |-> {}]
    /\ holder = [l \in Locks |-> None]
    /\ waiting = [l \in Locks |-> << >>]
    /\ at = [p \in Processors |-> "recv"]
    /\ event = [p \in Processors |-> NoTransaction]

\* The record of a dispute round trip, as test_resolve plays it: the account
\* before the Dispute that was applied, and whether the Resolve of the same
\* tx_id was the client's next event.
applied_dispute(txs, r, tx) ==
    /\ tx.kind = "Dispute"
    /\ r.result = Ok
    /\ tx.data.tx_id \in DOMAIN txs
    /\ ~txs[tx.data.tx_id].under_dispute
    /\ r.transactions[tx.data.tx_id].under_dispute

track_dispute(d, accts, txs, r, tx) ==
    LET c == tx.data.client_id
    IN  IF applied_dispute(txs, r, tx)
        THEN [d EXCEPT ![c] = Some([tx_id |-> tx.data.tx_id,
                                     before |-> entry_or_default(accts, c),
                                     resolved |-> FALSE])]
        ELSE IF /\ tx.kind = "Resolve"
                /\ is_some(d[c])
                /\ unwrap(d[c]).tx_id = tx.data.tx_id
                /\ ~unwrap(d[c]).resolved
             THEN [d EXCEPT ![c] = Some([unwrap(d[c]) EXCEPT !.resolved = TRUE])]
             ELSE [d EXCEPT ![c] = None]

\* The Chargeback arm took its inner branch: the entry is there, has an
\* amount and is under dispute when the call begins, and the call returns Ok.
applied_chargeback(txs, r, tx) ==
    /\ tx.kind = "Chargeback"
    /\ r.result = Ok
    /\ tx.data.tx_id \in DOMAIN txs
    /\ is_some(txs[tx.data.tx_id].amount)
    /\ txs[tx.data.tx_id].under_dispute

\* One pass of the loop in process(): the event goes through
\* process_transaction and the Result is dropped.
Process(tx) ==
    LET r == process_transaction(accounts, transactions, tx)
    IN  /\ accounts' = r.accounts
        /\ transactions' = r.transactions
        /\ result' = r.result
        /\ disputed' = track_dispute(disputed, accounts, transactions, r, tx)
        /\ last' = tx
        /\ pre' = [accounts |-> accounts, transactions |-> transactions]
        /\ processed' = processed + 1
        /\ charged' = IF applied_chargeback(transactions, r, tx)
                      THEN charged \cup {tx.data.tx_id}
                      ELSE charged

\* record_to_transaction only lets a Deposit or Withdrawal through with an
\* amount > 0, and builds the other three kinds with amount None.
Deposit(c, t, a) ==
    /\ processed < MaxEvents
    /\ Process(Transaction("Deposit", c, t, Some(a)))
    /\ UNCHANGED <<chan_vars, shared_vars, lock_vars>>

Withdrawal(c, t, a) ==
    /\ processed < MaxEvents
    /\ Process(Transaction("Withdrawal", c, t, Some(a)))
    /\ UNCHANGED <<chan_vars, shared_vars, lock_vars>>

Dispute(c, t) ==
    /\ processed < MaxEvents
    /\ Process(Transaction("Dispute", c, t, None))
    /\ UNCHANGED <<chan_vars, shared_vars, lock_vars>>

Resolve(c, t) ==
    /\ processed < MaxEvents
    /\ Process(Transaction("Resolve", c, t, None))
    /\ UNCHANGED <<chan_vars, shared_vars, lock_vars>>

Chargeback(c, t) ==
    /\ processed < MaxEvents
    /\ Process(Transaction("Chargeback", c, t, None))
    /\ UNCHANGED <<chan_vars, shared_vars, lock_vars>>

Next ==
    \/ \E c \in ClientIDs, t \in TxIDs, a \in Amounts : Deposit(c, t, a)
    \/ \E c \in ClientIDs, t \in TxIDs, a \in Amounts : Withdrawal(c, t, a)
    \/ \E c \in ClientIDs, t \in TxIDs : Dispute(c, t)
    \/ \E c \in ClientIDs, t \in TxIDs : Resolve(c, t)
    \/ \E c \in ClientIDs, t \in TxIDs : Chargeback(c, t)

Spec == Init /\ [][Next]_vars

----------------------------------------------------------------------------
\* The processor fed without record_to_transaction in front of it, as the
\* tests feed it: a Transaction built by hand and sent down the channel can
\* carry any amount.

NonPositiveAmounts == {-1, 0}

DepositUnfiltered(c, t, a) ==
    /\ processed < MaxEvents
    /\ Process(Transaction("Deposit", c, t, Some(a)))
    /\ UNCHANGED <<chan_vars, shared_vars, lock_vars>>

WithdrawalUnfiltered(c, t, a) ==
    /\ processed < MaxEvents
    /\ Process(Transaction("Withdrawal", c, t, Some(a)))
    /\ UNCHANGED <<chan_vars, shared_vars, lock_vars>>

NextUnfiltered ==
    \/ Next
    \/ \E c \in ClientIDs, t \in TxIDs, a \in NonPositiveAmounts :
          DepositUnfiltered(c, t, a)
    \/ \E c \in ClientIDs, t \in TxIDs, a \in NonPositiveAmounts :
          WithdrawalUnfiltered(c, t, a)

SpecUnfiltered == Init /\ [][NextUnfiltered]_vars

----------------------------------------------------------------------------
\* Longer runs of the same processor over a narrower input: long enough for
\* an account to be locked while another ledger entry is still open.

MaxLongEvents == 6
LongClientIDs == {0, 1}
LongTxIDs == {1, 2}
LongAmounts == {1}

LongDeposit(c, t, a) ==
    /\ processed < MaxLongEvents
    /\ Process(Transaction("Deposit", c, t, Some(a)))
    /\ UNCHANGED <<chan_vars, shared_vars, lock_vars>>

LongWithdrawal(c, t, a) ==
    /\ processed < MaxLongEvents
    /\ Process(Transaction("Withdrawal", c, t, Some(a)))
    /\ UNCHANGED <<chan_vars, shared_vars, lock_vars>>

LongDispute(c, t) ==
    /\ processed < MaxLongEvents
    /\ Process(Transaction("Dispute", c, t, None))
    /\ UNCHANGED <<chan_vars, shared_vars, lock_vars>>

LongResolve(c, t) ==
    /\ processed < MaxLongEvents
    /\ Process(Transaction("Resolve", c, t, None))
    /\ UNCHANGED <<chan_vars, shared_vars, lock_vars>>

LongChargeback(c, t) ==
    /\ processed < MaxLongEvents
    /\ Process(Transaction("Chargeback", c, t, None))
    /\ UNCHANGED <<chan_vars, shared_vars, lock_vars>>

NextLong ==
    \/ \E c \in LongClientIDs, t \in LongTxIDs, a \in LongAmounts :
          LongDeposit(c, t, a)
    \/ \E c \in LongClientIDs, t \in LongTxIDs, a \in LongAmounts :
          LongWithdrawal(c, t, a)
    \/ \E c \in LongClientIDs, t \in LongTxIDs : LongDispute(c, t)
    \/ \E c \in LongClientIDs, t \in LongTxIDs : LongResolve(c, t)
    \/ \E c \in LongClientIDs, t \in LongTxIDs : LongChargeback(c, t)

SpecLong == Init /\ [][NextLong]_vars

----------------------------------------------------------------------------
\* Two TransactionProcessors built over the same two Arcs, processor p
\* consuming a stream that names client p only.  process_transaction holds
\* the write lock of the accounts map from its first line to its return, so
\* the calls of the two processors follow one another in some order.
\* alone[p] is what the stream of p gives on maps of its own, used[p] the
\* tx_ids that stream has named.

MaxSharedEvents == 4
SharedAmounts == Amounts

StreamOf(p) ==
    {Transaction(k, p, t, Some(a)) :
        k \in {"Deposit", "Withdrawal"}, t \in TxIDs, a \in SharedAmounts}
    \cup {Transaction(k, p, t, None) :
        k \in {"Dispute", "Resolve", "Chargeback"}, t \in TxIDs}

SharedProcess(p, tx) ==
    /\ Process(tx)
    /\ LET r == process_transaction(alone[p].accounts,
                                     alone[p].transactions, tx)
       IN  alone' = [alone EXCEPT ![p] = [accounts |-> r.accounts,
                                          transactions |-> r.transactions]]
    /\ used' = [used EXCEPT ![p] = @ \cup {tx.data.tx_id}]
    /\ UNCHANGED <<chan_vars, lock_vars>>

ProcessorA ==
    /\ processed < MaxSharedEvents
    /\ \E tx \in StreamOf(0) : SharedProcess(0, tx)

ProcessorB ==
    /\ processed < MaxSharedEvents
    /\ \E tx \in StreamOf(1) : SharedProcess(1, tx)

NextShared == ProcessorA \/ ProcessorB

SpecShared == Init /\ [][NextShared]_vars

----------------------------------------------------------------------------
\* The processor on input in which a Dispute, Resolve or Chargeback always
\* carries the client_id of the ledger entry its tx_id names; a tx_id the
\* ledger does not have can come with any client_id.

carries_owner_id(txs, c, t) ==
    t \in DOMAIN txs => txs[t].client_id = c

OwnedDispute(c, t) ==
    /\ processed < MaxEvents
    /\ carries_owner_id(transactions, c, t)
    /\ Process(Transaction("Dispute", c, t, None))
    /\ UNCHANGED <<chan_vars, shared_vars, lock_vars>>

OwnedResolve(c, t) ==
    /\ processed < MaxEvents
    /\ carries_owner_id(transactions, c, t)
    /\ Process(Transaction("Resolve", c, t, None))
    /\ UNCHANGED <<chan_vars, shared_vars, lock_vars>>

OwnedChargeback(c, t) ==
    /\ processed < MaxEvents
    /\ carries_owner_id(transactions, c, t)
    /\ Process(Transaction("Chargeback", c, t, None))
    /\ UNCHANGED <<chan_vars, shared_vars, lock_vars>>

NextOwned ==
    \/ \E c \in ClientIDs, t \in TxIDs, a \in Amounts : Deposit(c, t, a)
    \/ \E c \in ClientIDs, t \in TxIDs, a \in Amounts : Withdrawal(c, t, a)
    \/ \E c \in ClientIDs, t \in TxIDs : OwnedDispute(c, t)
    \/ \E c \in ClientIDs, t \in TxIDs : OwnedResolve(c, t)
    \/ \E c \in ClientIDs, t \in TxIDs : OwnedChargeback(c, t)

SpecOwned == Init /\ [][NextOwned]_vars

----------------------------------------------------------------------------
\* main and process() around the channel: main decodes the records and
\* sends each event, then drops the sender and awaits the processor;
\* process() receives until recv() yields None.

\* The events of the stream main reads here: the five kinds, for one client
\* and one tx_id, which is enough for each of the four failures to occur.
StreamEvents ==
    {Transaction("Deposit", 0, 1, Some(1)),
     Transaction("Withdrawal", 0, 1, Some(1)),
     Transaction("Dispute", 0, 1, None),
     Transaction("Resolve", 0, 1, None),
     Transaction("Chargeback", 0, 1, None)}

\* recv() on the unbounded channel: Some(the oldest event) when one is
\* buffered, None once the buffer is empty and the sender dropped.
recv_ready(q) == q /= << >>

recv_newest(q) == q[Len(q)]

recv_next(q) == Head(q)

recv_closed_on_drop(q, s) == s = "dropped"

recv_closed(q, s) == q = << >> /\ s = "dropped"

continues_after_ok_only(res) == res = Ok

\* match self.process_transaction(tx).await { Ok(_) => (), Err(_e) => {} }:
\* the loop goes on after either.
continues_after(res) == TRUE

\* for record in reader.deserialize() { ... sender.send(tx) ... }
Send(e) ==
    /\ sender = "alive"
    /\ Len(sent) < MaxSent
    /\ queue' = Append(queue, e)
    /\ sent' = Append(sent, e)
    /\ UNCHANGED <<core_vars, sender, pc, applied, shared_vars, lock_vars>>

\* drop(sender)
DropSender ==
    /\ sender = "alive"
    /\ sender' = "dropped"
    /\ UNCHANGED <<core_vars, queue, pc, sent, applied, shared_vars, lock_vars>>

\* One turn of while let Some(tx) = recv().await { process_transaction(tx) }
Recv ==
    /\ pc = "recv"
    /\ recv_ready(queue)
    /\ LET tx == recv_next(queue)
       IN  /\ Process(tx)
           /\ applied' = Append(applied, tx)
           /\ pc' = IF continues_after(
                          process_transaction(accounts, transactions, tx).result)
                    THEN "recv" ELSE "halted"
    /\ queue' = Tail(queue)
    /\ UNCHANGED <<sender, sent, shared_vars, lock_vars>>

\* recv() yields None: the loop ends and process() returns self.
Halt ==
    /\ pc = "recv"
    /\ recv_closed(queue, sender)
    /\ pc' = "halted"
    /\ UNCHANGED <<core_vars, queue, sender, sent, applied, shared_vars, lock_vars>>

NextStream ==
    \/ \E e \in StreamEvents : Send(e)
    \/ DropSender
    \/ Recv
    \/ Halt

\* The spawned processor task is scheduled whenever it can run.
SpecStream ==
    Init /\ [][NextStream]_vars /\ WF_vars(Recv) /\ WF_vars(Halt)

\* The events of a sequence applied one after the other to empty maps.
RECURSIVE run(_)
run(events) ==
    IF events = << >>
    THEN EmptyMaps
    ELSE LET m == run(SubSeq(events, 1, Len(events) - 1))
             r == process_transaction(m.accounts, m.transactions,
                                      events[Len(events)])
         IN  [accounts |-> r.accounts, transactions |-> r.transactions]

----------------------------------------------------------------------------
\* Several processors over the same two RwLocks, one step per await point of
\* process_transaction.  The write side of a tokio RwLock goes to the tasks
\* waiting for it in the order they asked.  What the call does to the maps
\* is written when it returns: nothing it has done before is visible to
\* another processor while it holds the accounts lock.

MaxLockEvents == 4

write_free_ignored(l) == TRUE

\* The write side of lock l can be handed out.
write_free(l) == holder[l] = None

next_in_line(l, p) == waiting[l] /= << >> /\ Head(waiting[l]) = p

in_flight == Cardinality({p \in Processors : at[p] /= "recv"})

\* The returns that come before any self.transactions.write(): the locked
\* check, and the ? on a Withdrawal the account refuses.
returns_before_ledger(accts, tx) ==
    LET client == entry_or_default(accts, tx.data.client_id)
    IN  \/ locked_guard(client)
        \/ /\ tx.kind = "Withdrawal"
           /\ withdrawal(client, unwrap(tx.data.amount)).res /= Ok

\* process() received tx and calls process_transaction, which asks for the
\* accounts lock.
Call(p, tx) ==
    /\ at[p] = "recv"
    /\ processed + in_flight < MaxLockEvents
    /\ event' = [event EXCEPT ![p] = tx]
    /\ waiting' = [waiting EXCEPT !["accounts"] = Append(@, p)]
    /\ at' = [at EXCEPT ![p] = "accounts_wait"]
    /\ UNCHANGED <<core_vars, chan_vars, shared_vars, holder>>

AcquireAccounts(p) ==
    /\ at[p] = "accounts_wait"
    /\ write_free("accounts")
    /\ next_in_line("accounts", p)
    /\ holder' = [holder EXCEPT !["accounts"] = Some(p)]
    /\ waiting' = [waiting EXCEPT !["accounts"] = Tail(@)]
    /\ at' = [at EXCEPT ![p] = "accounts_held"]
    /\ UNCHANGED <<core_vars, chan_vars, shared_vars, event>>

ReturnEarly(p) ==
    /\ at[p] = "accounts_held"
    /\ returns_before_ledger(accounts, event[p])
    /\ Process(event[p])
    /\ holder' = [holder EXCEPT !["accounts"] = None]
    /\ at' = [at EXCEPT ![p] = "recv"]
    /\ event' = [event EXCEPT ![p] = NoTransaction]
    /\ UNCHANGED <<chan_vars, shared_vars, waiting>>

RequestLedger(p) ==
    /\ at[p] = "accounts_held"
    /\ ~returns_before_ledger(accounts, event[p])
    /\ waiting' = [waiting EXCEPT !["transactions"] = Append(@, p)]
    /\ at' = [at EXCEPT ![p] = "ledger_wait"]
    /\ UNCHANGED <<core_vars, chan_vars, shared_vars, holder, event>>

AcquireLedger(p) ==
    /\ at[p] = "ledger_wait"
    /\ write_free("transactions")
    /\ next_in_line("transactions", p)
    /\ holder' = [holder EXCEPT !["transactions"] = Some(p)]
    /\ waiting' = [waiting EXCEPT !["transactions"] = Tail(@)]
    /\ at' = [at EXCEPT ![p] = "ledger_held"]
    /\ UNCHANGED <<core_vars, chan_vars, shared_vars, event>>

\* Every return after the match: both guards are dropped.
Return(p) ==
    /\ at[p] = "ledger_held"
    /\ Process(event[p])
    /\ holder' = [l \in Locks |-> None]
    /\ at' = [at EXCEPT ![p] = "recv"]
    /\ event' = [event EXCEPT ![p] = NoTransaction]
    /\ UNCHANGED <<chan_vars, shared_vars, waiting>>

\* The steps of processor p once its call has begun.
Proceed(p) ==
    \/ AcquireAccounts(p)
    \/ ReturnEarly(p)
    \/ RequestLedger(p)
    \/ AcquireLedger(p)
    \/ Return(p)

NextLocks ==
    \E p \in Processors :
        \/ \E tx \in StreamEvents : Call(p, tx)
        \/ AcquireAccounts(p)
        \/ ReturnEarly(p)
        \/ RequestLedger(p)
        \/ AcquireLedger(p)
        \/ Return(p)

\* A spawned task that can go on is run, and a free lock is handed to the
\* first in line.
SpecLocks ==
    Init /\ [][NextLocks]_vars /\ \A p \in Processors : WF_vars(Proceed(p))

----------------------------------------------------------------------------
\* What the claims speak of.

Acted == last.kind /= "None"
event_client == last.data.client_id
event_tx == last.data.tx_id

\* The account of client c in a map, an account not created yet counting as
\* the all-zero unlocked account it is created as.
account_of(accts, c) == entry_or_default(accts, c)

before == account_of(pre.accounts, event_client)
after == account_of(accounts, event_client)

same_balances(a, b) ==
    /\ a.available = b.available
    /\ a.held = b.held
    /\ a.total = b.total

no_account_changed ==
    \A c \in ClientIDs :
        /\ same_balances(account_of(pre.accounts, c), account_of(accounts, c))
        /\ account_of(pre.accounts, c).locked = account_of(accounts, c).locked

dispute_family == {"Dispute", "Resolve", "Chargeback"}

----------------------------------------------------------------------------
\* C1: after every processed event, of any kind and with any Result, every
\* account in the map has total = available + held.
C1_TotalIsAvailablePlusHeld ==
    \A c \in DOMAIN accounts :
        accounts[c].total = accounts[c].available + accounts[c].held

\* A failed event has just been processed while some account holds funds.
C1_Witness ==
    /\ Acted
    /\ result /= Ok
    /\ \E c \in DOMAIN accounts : accounts[c].held > 0 /\ accounts[c].available > 0

\* C2: with every Deposit/Withdrawal amount > 0, every account has
\* held >= 0 after every processed event, also when Dispute, Resolve and
\* Chargeback name a tx_id another client recorded.
C2_HeldNonNegative ==
    \A c \in DOMAIN accounts : accounts[c].held >= 0

\* C3: with every Deposit/Withdrawal amount > 0, every account has
\* available >= 0 after every processed event.
C3_AvailableNonNegative ==
    \A c \in DOMAIN accounts : accounts[c].available >= 0

\* A Dispute was refused because the entry's amount exceeds what is available.
C3_Witness ==
    /\ last.kind = "Dispute"
    /\ result = ErrDispute
    /\ unwrap(pre.transactions[event_tx].amount) > before.available

\* C4: a Deposit or Withdrawal whose tx_id is already in the ledger is
\* rejected and leaves the account's available, held and total as they were.
\* (The kind of failure is left open here, so that what refutes the claim is
\* the balance change.)
C4_DuplicateLeavesBalances ==
    (/\ last.kind \in {"Deposit", "Withdrawal"}
     /\ event_tx \in DOMAIN pre.transactions)
        => /\ result /= Ok
           /\ same_balances(before, after)

\* C5: once an account is locked it stays locked, and no later event, of any
\* kind, client id and tx_id, changes its available, held or total.
C5_LockedAccountIsFinal ==
    \A c \in DOMAIN pre.accounts :
        pre.accounts[c].locked =>
            /\ c \in DOMAIN accounts
            /\ accounts[c].locked
            /\ same_balances(pre.accounts[c], accounts[c])

\* A Deposit was sent to a client whose account a chargeback had locked.
C5_Witness ==
    /\ last.kind = "Deposit"
    /\ event_client \in DOMAIN pre.accounts
    /\ before.locked
    /\ after.locked

\* C6: an event whose client's account is locked fails with AccountLocked
\* and touches nothing: no account, no ledger entry, no under_dispute flag.
C6_LockedRejectsUntouched ==
    (Acted /\ before.locked) =>
        /\ result = ErrAccountLocked
        /\ accounts = pre.accounts
        /\ transactions = pre.transactions

\* A Deposit with a tx_id the ledger does not hold was sent to a locked
\* account.
C6_Witness ==
    /\ last.kind = "Deposit"
    /\ before.locked
    /\ event_tx \notin DOMAIN pre.transactions

\* C7, as claimed: a Dispute, Resolve or Chargeback whose tx_id is not in
\* the ledger returns Ok and changes no balance of any account and no ledger
\* entry.
C7_UnknownTxIsOkNoop ==
    (/\ last.kind \in dispute_family
     /\ event_tx \notin DOMAIN pre.transactions)
        => /\ result = Ok
           /\ no_account_changed
           /\ transactions = pre.transactions

\* C7, amended: a Dispute, Resolve or Chargeback whose tx_id is not in the
\* ledger changes no balance of any account and no ledger entry; it returns
\* Ok when the event's client account is not locked, and AccountLocked when
\* it is.
C7_UnknownTxIsNoop ==
    (/\ last.kind \in dispute_family
     /\ event_tx \notin DOMAIN pre.transactions)
        => /\ result = (IF before.locked THEN ErrAccountLocked ELSE Ok)
           /\ no_account_changed
           /\ transactions = pre.transactions

\* A Dispute named an unrecorded tx_id while the ledger held another entry
\* and the client had funds.
C7_Witness ==
    /\ last.kind = "Dispute"
    /\ event_tx \notin DOMAIN pre.transactions
    /\ pre.transactions /= << >>
    /\ before.available > 0
    /\ ~before.locked

\* C8: for a transaction a client recorded, a Dispute of it that was applied,
\* followed with no other event of that client in between by a Resolve of
\* the same tx_id, leaves the account with its pre-dispute available, held
\* and total, and the entry not under dispute.
C8_DisputeResolveRoundTrip ==
    (/\ last.kind = "Resolve"
     /\ is_some(disputed[event_client])
     /\ unwrap(disputed[event_client]).resolved
     /\ transactions[event_tx].client_id = event_client)
        => /\ same_balances(unwrap(disputed[event_client]).before, after)
           /\ ~transactions[event_tx].under_dispute

C10_DisputeAsClaimed ==
    (/\ last.kind = "Dispute"
     /\ event_tx \in DOMAIN pre.transactions
     /\ ~pre.transactions[event_tx].under_dispute
     /\ unwrap(pre.transactions[event_tx].amount) > before.available)
        => /\ result = ErrDispute
           /\ same_balances(before, after)
           /\ ~transactions[event_tx].under_dispute
           /\ transactions = pre.transactions

\* C10, amended: the same for a client whose account is not locked; on a
\* locked account the failure is AccountLocked, and nothing changes either.
C10_DisputeUnlocked ==
    (/\ last.kind = "Dispute"
     /\ event_tx \in DOMAIN pre.transactions
     /\ ~pre.transactions[event_tx].under_dispute
     /\ unwrap(pre.transactions[event_tx].amount) > before.available)
        => /\ result = (IF before.locked THEN ErrAccountLocked ELSE ErrDispute)
           /\ same_balances(before, after)
           /\ ~transactions[event_tx].under_dispute
           /\ transactions = pre.transactions

\* An unlocked client with some funds disputed an entry of a larger amount.
C10_Witness ==
    /\ last.kind = "Dispute"
    /\ event_tx \in DOMAIN pre.transactions
    /\ ~pre.transactions[event_tx].under_dispute
    /\ ~before.locked
    /\ before.available > 0
    /\ unwrap(pre.transactions[event_tx].amount) > before.available

\* C11: the ledger is append-only and first-writer-wins: an entry, once
\* there, is never removed and keeps its client_id, tx_id and amount under
\* every later event; only its under_dispute flag can change.
C11_LedgerAppendOnly ==
    \A t \in DOMAIN pre.transactions :
        /\ t \in DOMAIN transactions
        /\ transactions[t].client_id = pre.transactions[t].client_id
        /\ transactions[t].tx_id = pre.transactions[t].tx_id
        /\ transactions[t].amount = pre.transactions[t].amount

\* A Deposit or Withdrawal came with a recorded tx_id, from another client
\* and with another amount than the entry's.
C11_Witness ==
    /\ last.kind \in {"Deposit", "Withdrawal"}
    /\ event_tx \in DOMAIN pre.transactions
    /\ pre.transactions[event_tx].client_id /= event_client
    /\ pre.transactions[event_tx].amount /= last.data.amount
    /\ result = ErrTransactionAlreadyExists

\* C19, as claimed: a Dispute of an entry already under dispute, and a
\* Resolve or Chargeback of an entry not under dispute, return Ok and change
\* no account balance, no locked flag and no ledger entry.
wrong_state_event ==
    /\ last.kind \in dispute_family
    /\ event_tx \in DOMAIN pre.transactions
    /\ pre.transactions[event_tx].under_dispute = (last.kind = "Dispute")

C19_WrongStateIsOkNoop ==
    wrong_state_event
        => /\ result = Ok
           /\ no_account_changed
           /\ transactions = pre.transactions

\* C19, amended: such an event changes no account balance, no locked flag
\* and no ledger entry; it returns Ok when the event client's account is not
\* locked, and AccountLocked when it is.
C19_WrongStateIsNoop ==
    wrong_state_event
        => /\ result = (IF before.locked THEN ErrAccountLocked ELSE Ok)
           /\ no_account_changed
           /\ transactions = pre.transactions

\* A second Dispute named an entry under dispute, by a client that had the
\* funds to hold it once more.
C19_Witness ==
    /\ last.kind = "Dispute"
    /\ event_tx \in DOMAIN pre.transactions
    /\ pre.transactions[event_tx].under_dispute
    /\ ~before.locked
    /\ before.available >= unwrap(pre.transactions[event_tx].amount)

\* C20: an event changes at most the account keyed by its client_id and the
\* ledger entry keyed by its tx_id: every other account (balances, locked,
\* being there at all) and every other ledger entry is as before.
C20_OneAccountOneEntry ==
    Acted =>
        /\ \A c \in ClientIDs \ {event_client} :
              /\ (c \in DOMAIN accounts) = (c \in DOMAIN pre.accounts)
              /\ c \in DOMAIN accounts => accounts[c] = pre.accounts[c]
        /\ \A t \in TxIDs \ {event_tx} :
              /\ (t \in DOMAIN transactions) = (t \in DOMAIN pre.transactions)
              /\ t \in DOMAIN transactions
                    => transactions[t] = pre.transactions[t]

\* A client's Dispute of a transaction another client recorded was applied
\* while the ledger held a second entry.
C20_Witness ==
    /\ last.kind = "Dispute"
    /\ event_tx \in DOMAIN pre.transactions
    /\ pre.transactions[event_tx].client_id /= event_client
    /\ transactions[event_tx].under_dispute
    /\ ~pre.transactions[event_tx].under_dispute
    /\ DOMAIN pre.transactions = TxIDs
    /\ DOMAIN pre.accounts = ClientIDs

\* C12: a failed event never ends the stream: after process_transaction has
\* returned a failure the loop goes on, and the events sent, those still in
\* the queue included, all get received and applied.
C12_FailureDoesNotEndStream ==
    (result /= Ok) ~> (applied = sent /\ queue = << >>)

\* A fifth event was applied after the account had been locked and the
\* event before it refused with AccountLocked.
C12_Witness ==
    /\ Len(applied) = 5
    /\ applied[3].kind = "Chargeback"
    /\ run(SubSeq(applied, 1, 3)).accounts[0].locked
    /\ result = ErrAccountLocked
    /\ pc = "recv"

\* C13: once the sender is dropped the consumer eventually halts; it halts
\* only with the sender dropped, and then every event sent has been handed
\* to process_transaction exactly once, none left in the queue.
C13_ShutdownDrains ==
    /\ [](pc = "halted" =>
            /\ sender = "dropped"
            /\ queue = << >>
            /\ applied = sent)
    /\ (sender = "dropped") ~> (pc = "halted")

\* The consumer halted after a stream of events some of which had still
\* been in the queue when the sender was dropped.
C13_Witness ==
    /\ pc = "halted"
    /\ Len(sent) >= 3
    /\ applied = sent

\* C14: events are applied one at a time and in the order sent: what has
\* been applied is a prefix of what was sent, the rest is the queue, and
\* the accounts and the ledger are those of applying that prefix event by
\* event, each on the state the one before left.
C14_AppliedInOrder ==
    /\ applied \o queue = sent
    /\ processed = Len(applied)
    /\ [accounts |-> accounts, transactions |-> transactions] = run(applied)

\* Two events were applied while a third one waited in the queue.
C14_Witness ==
    /\ Len(applied) >= 2
    /\ applied[1] /= applied[2]
    /\ queue /= << >>
    /\ queue[1] /= applied[2]

\* C15: a Deposit or Withdrawal with amount <= 0 that reaches
\* process_transaction is rejected with a failure before anything is
\* changed: no balance changes and no ledger entry is inserted.
C15_NonPositiveAmountRejected ==
    (/\ last.kind \in {"Deposit", "Withdrawal"}
     /\ unwrap(last.data.amount) <= 0)
        => /\ result /= Ok
           /\ same_balances(before, after)
           /\ transactions = pre.transactions

\* The event names a recorded entry whose under_dispute flag is f.
names_entry(f) ==
    /\ event_tx \in DOMAIN pre.transactions
    /\ pre.transactions[event_tx].under_dispute = f

entry_amount == unwrap(pre.transactions[event_tx].amount)

\* The event moved hd into held and av into available of its client, and
\* left the flag of the named entry at f.
moved(av, hd, f) ==
    /\ after.available = before.available + av
    /\ after.held = before.held + hd
    /\ after.total = before.total + av + hd
    /\ transactions[event_tx].under_dispute = f

\* C17, as claimed: a Dispute of a recorded entry that is not under dispute
\* and whose amount is at most the event client's available balance returns
\* Ok, moves that amount from available to held, leaves total and locked as
\* they were and sets the entry's under_dispute flag.
C17_DisputeMovesAsClaimed ==
    (/\ last.kind = "Dispute"
     /\ names_entry(FALSE)
     /\ entry_amount <= before.available)
        => /\ result = Ok
           /\ moved(-entry_amount, entry_amount, TRUE)
           /\ after.locked = before.locked

\* C17, amended: the same when the event client's account is not locked; on
\* a locked account the Dispute returns AccountLocked and moves nothing.
C17_DisputeMovesUnlocked ==
    (/\ last.kind = "Dispute"
     /\ names_entry(FALSE)
     /\ entry_amount <= before.available)
        => IF before.locked
           THEN /\ result = ErrAccountLocked
                /\ moved(0, 0, FALSE)
                /\ after.locked
           ELSE /\ result = Ok
                /\ moved(-entry_amount, entry_amount, TRUE)
                /\ ~after.locked

\* An unlocked client that already held funds disputed a second entry and
\* kept available funds after it.
C17_Witness ==
    /\ last.kind = "Dispute"
    /\ names_entry(FALSE)
    /\ ~before.locked
    /\ before.held > 0
    /\ entry_amount < before.available
    /\ result = Ok

\* Only a Chargeback of an entry under dispute, sent for client c, takes the
\* account of c from unlocked to locked.
locked_only_by_chargeback ==
    \A c \in ClientIDs :
        (account_of(accounts, c).locked /\ ~account_of(pre.accounts, c).locked)
            => /\ last.kind = "Chargeback"
               /\ event_client = c
               /\ names_entry(TRUE)

\* C18, as claimed: a Chargeback of an entry under dispute subtracts the
\* entry's amount from held and from total of the event's client, leaves
\* available as it was, clears the entry's flag and sets locked; and no
\* other step sets locked.
C18_ChargebackAsClaimed ==
    /\ (last.kind = "Chargeback" /\ names_entry(TRUE))
          => /\ moved(0, -entry_amount, FALSE)
             /\ after.locked
    /\ locked_only_by_chargeback

\* C18, amended: the same when the event client's account is not locked
\* before the Chargeback; on an account that is locked already the
\* Chargeback returns AccountLocked, subtracts nothing and leaves the entry
\* under dispute.
C18_ChargebackUnlocked ==
    /\ (last.kind = "Chargeback" /\ names_entry(TRUE))
          => IF before.locked
             THEN /\ result = ErrAccountLocked
                  /\ moved(0, 0, TRUE)
                  /\ after.locked
             ELSE /\ result = Ok
                  /\ moved(0, -entry_amount, FALSE)
                  /\ after.locked
    /\ locked_only_by_chargeback

\* An unlocked client with available funds was charged back an entry under
\* dispute and is locked by it.
C18_Witness ==
    /\ last.kind = "Chargeback"
    /\ names_entry(TRUE)
    /\ ~before.locked
    /\ before.available > 0
    /\ after.locked
    /\ result = Ok

\* Each client's account in the shared map is the one its own stream gives
\* when processed alone.
same_as_alone ==
    \A p \in ClientIDs :
        account_of(accounts, p) = account_of(alone[p].accounts, p)

\* C16, as claimed: with two processors on the same maps and streams that
\* name disjoint client ids, each client's account after any interleaving is
\* the account its own stream alone gives.
C16_InterleavingAsClaimed == same_as_alone

\* C16, amended: the same when the two streams also name disjoint tx_ids;
\* the ledger is keyed by tx_id alone, so a tx_id named by both streams ties
\* the two clients together.
C16_InterleavingDisjointTx ==
    (used[0] \cap used[1] = {}) => same_as_alone

\* Both processors have applied events on disjoint tx_ids, the second one
\* while the first client held disputed funds.
C16_Witness ==
    /\ used[0] /= {}
    /\ used[1] /= {}
    /\ used[0] \cap used[1] = {}
    /\ account_of(accounts, 0).held > 0
    /\ account_of(accounts, 1).available > 0
    /\ event_client = 1

\* The accounts map after an event has the keys it had plus the event's
\* client, and every account carries the id it is stored under.
accounts_follow_events ==
    /\ Acted => DOMAIN accounts = DOMAIN pre.accounts \cup {event_client}
    /\ \A c \in DOMAIN accounts : accounts[c].client = c

zero_account(c) == [AccountDefault EXCEPT !.client = c]

\* The event failed, or is a Dispute, Resolve or Chargeback of a tx_id the
\* ledger does not have.
failed_or_noop ==
    \/ result /= Ok
    \/ last.kind \in dispute_family /\ event_tx \notin DOMAIN pre.transactions

\* A client whose events so far all failed or were no-ops has the all-zero
\* unlocked account after one more such event.
failed_events_leave_zero ==
    (Acted /\ before = zero_account(event_client) /\ failed_or_noop)
        => after = zero_account(event_client)

\* C21: accounts are created lazily and never deleted: the map holds an
\* account for exactly the client ids the processed events named, and a
\* client whose only events failed or were no-ops has the account
\* {available 0, held 0, total 0, locked false} with its own id.
C21_LazyAccounts ==
    /\ accounts_follow_events
    /\ failed_events_leave_zero

\* The event is a Dispute, Resolve or Chargeback naming a ledger entry that
\* another client recorded.
names_foreign_entry ==
    /\ last.kind \in dispute_family
    /\ event_tx \in DOMAIN pre.transactions
    /\ pre.transactions[event_tx].client_id /= event_client

\* C23: a Dispute, Resolve or Chargeback whose client_id differs from the
\* client_id of the ledger entry it names changes no account's balances or
\* locked flag and leaves the entry's under_dispute flag as it was.
C23_ForeignEventChangesNothing ==
    names_foreign_entry
        => /\ no_account_changed
           /\ transactions[event_tx].under_dispute
                  = pre.transactions[event_tx].under_dispute

\* C22: a Chargeback is terminal for its ledger entry: once an entry has
\* been charged back, no later event of any client sets its under_dispute
\* flag again or moves its amount into an account's held balance.
C22_ChargebackIsTerminal ==
    /\ \A t \in charged : ~transactions[t].under_dispute
    /\ (last.kind = "Dispute" /\ event_tx \in charged)
          => \A c \in ClientIDs :
                 account_of(accounts, c).held = account_of(pre.accounts, c).held

\* The ledger entries of client c that are under dispute.
open_disputes(txs, c) ==
    {t \in DOMAIN txs : txs[t].client_id = c /\ txs[t].under_dispute}

\* The sum of the amounts of the entries ts of the ledger txs.
RECURSIVE sum_amounts(_, _)
sum_amounts(txs, ts) ==
    IF ts = {}
    THEN 0
    ELSE LET t == CHOOSE x \in ts : TRUE
         IN  unwrap(txs[t].amount) + sum_amounts(txs, ts \ {t})

\* C24: when every Dispute, Resolve and Chargeback carries the client_id of
\* the entry it names, each account's held is, after every processed event,
\* the sum of the amounts of that client's entries under dispute (0 when
\* there are none), duplicate tx_ids and failed events included.
C24_HeldIsSumOfOpenDisputes ==
    \A c \in ClientIDs :
        account_of(accounts, c).held
            = sum_amounts(transactions, open_disputes(transactions, c))

\* A client holds its one recorded entry under dispute while its total is
\* more than any one Deposit brings: a Deposit with the recorded tx_id was
\* refused in between.
C24_Witness ==
    \E c \in ClientIDs :
        /\ Cardinality(DOMAIN transactions) = 1
        /\ open_disputes(transactions, c) = DOMAIN transactions
        /\ account_of(accounts, c).held > 0
        /\ account_of(accounts, c).total > MaxAmount

\* Processor p is between taking the accounts lock and its return.
in_section(p) == at[p] \in {"accounts_held", "ledger_wait", "ledger_held"}

\* The accounts lock is held from its grant to the return, the ledger lock
\* only inside that, and no two processors are in the section at once.
locks_nested ==
    /\ \A p \in Processors : in_section(p) => holder["accounts"] = Some(p)
    /\ \A p \in Processors :
          (at[p] = "ledger_held") <=> (holder["transactions"] = Some(p))
    /\ \A p, q \in Processors : p /= q => ~(in_section(p) /\ in_section(q))

\* The maps change only in the return step of the processor in the section.
maps_change_on_return ==
    (accounts' /= accounts \/ transactions' /= transactions)
        => \E p \in Processors : in_section(p) /\ at'[p] = "recv"

\* C25: with several processors on the same maps, process_transaction takes
\* the accounts write lock first and the ledger write lock second and holds
\* the accounts lock until it returns on every path, so no two processors
\* are in its mutating section at once, the maps change one whole event at a
\* time, and every processor that asks for the locks gets them and returns.
C25_DeadlockFreeAtomic ==
    /\ []locks_nested
    /\ [][maps_change_on_return]_vars
    /\ \A p \in Processors : (at[p] /= "recv") ~> (at[p] = "recv")

\* One processor holds both locks while the other one is queued for the
\* accounts lock, after a call that returned before the ledger lock.
C25_Witness ==
    /\ \E p, q \in Processors :
          /\ at[p] = "ledger_held"
          /\ at[q] = "accounts_wait"
          /\ waiting["accounts"] = <<q>>
    /\ result \in {ErrWithdrawal, ErrAccountLocked}

====
